---- MODULE Spec2Model ----
(***************************************************************************)
(* Flavor registry and flavor selection of go/vt/mysqlctl/mysql_flavor.go. *)
(*                                                                         *)
(* The registry is the package-level map mysqlFlavors (line 58); the       *)
(* selector is mysqlFlavor() (lines 60-81).  mysqlFlavor() is not atomic:  *)
(* it reads the environment once (line 61) and then reads the map in up to *)
(* three separate accesses (len at 63, range at 64, index at 69 or 75).    *)
(* Each access is one step of a caller here, so registrations and changes  *)
(* of MYSQL_FLAVOR can fall between them.  log.Fatal/log.Fatalf terminate  *)
(* the process: once fatal # "none" no action is enabled.                  *)
(***************************************************************************)
EXTENDS Naturals, FiniteSets

\* ---------------------------------------------------------------- bounds
\* concurrent callers; calls of mysqlFlavor(); registrations plus changes of
\* MYSQL_FLAVOR
NumCallers == 2
MaxCalls == 2
MaxMutations == 2

\* ------------------------------------------------------------- vocabulary
DefaultName == "GoogleMysql"
Names == {"GoogleMysql", "MariaDB", "Percona"}
Impls == {"implA", "implB"}
Unset == ""
EnvValues == {Unset} \cup Names
NoFlavor == "nil"
NoReg == [name |-> "-", impl |-> NoFlavor, old |-> NoFlavor]
Callers == 1..NumCallers

VARIABLES
    mysqlFlavors,   \* the registry map: a function from a subset of Names to Impls
    env,            \* the value of MYSQL_FLAVOR in the process environment
    pc,             \* per caller: position inside mysqlFlavor()
    f,              \* per caller: the local f of line 61
    ret,            \* per caller: the value returned by the current call
    fatal,          \* "none", or which log.Fatal terminated the process
    calls,          \* number of calls of mysqlFlavor() started so far
    mutations,      \* number of registrations and environment changes so far
    \* history variables (observers; no action's guard reads them)
    regClean,       \* per caller: registry unchanged since the current call began
    early,          \* per caller: current call began before any call had returned
    prevRet,        \* per caller: value returned by the caller's previous call
    prevSame,       \* per caller: registry unchanged since the previous call began
                    \*   and the current call read the same MYSQL_FLAVOR
    firstRet,       \* value returned by the first call that returned
    firstF,         \* MYSQL_FLAVOR as read by that call
    firstClean,     \* registry unchanged since that call began
    lastReg         \* the last registration, when it overwrote an entry

vars == <<mysqlFlavors, env, pc, f, ret, fatal, calls, mutations, regClean, early,
          prevRet, prevSame, firstRet, firstF, firstClean, lastReg>>

hist == <<regClean, early, prevRet, prevSame, firstRet, firstF, firstClean, lastReg>>

Registered == DOMAIN mysqlFlavors
Len == Cardinality(Registered)

Init ==
    /\ mysqlFlavors = [n \in {} |-> NoFlavor]
    /\ env \in EnvValues
    /\ pc = [p \in Callers |-> "idle"]
    /\ f = [p \in Callers |-> Unset]
    /\ ret = [p \in Callers |-> NoFlavor]
    /\ fatal = "none"
    /\ calls = 0
    /\ mutations = 0
    /\ regClean = [p \in Callers |-> TRUE]
    /\ early = [p \in Callers |-> FALSE]
    /\ prevRet = [p \in Callers |-> NoFlavor]
    /\ prevSame = [p \in Callers |-> FALSE]
    /\ firstRet = NoFlavor
    /\ firstF = Unset
    /\ firstClean = FALSE
    /\ lastReg = NoReg

\* ------------------------------------------------------------ environment

\* What a registration leaves behind besides the map itself: the record of an
\* overwrite, and the flags that say the registry is as it was.
Registration(name, impl) ==
    /\ fatal = "none"
    /\ mutations < MaxMutations
    /\ mutations' = mutations + 1
    /\ lastReg' = IF name \in Registered
                  THEN [name |-> name, impl |-> impl, old |-> mysqlFlavors[name]]
                  ELSE NoReg
    /\ regClean' = [p \in Callers |-> regClean[p] /\ mysqlFlavors' = mysqlFlavors]
    /\ prevSame' = [p \in Callers |-> prevSame[p] /\ mysqlFlavors' = mysqlFlavors]
    /\ firstClean' = (firstClean /\ mysqlFlavors' = mysqlFlavors)
    /\ UNCHANGED <<env, pc, f, ret, fatal, calls, early, prevRet, firstRet, firstF>>

\* faulty variant: a registration keeps the entry that is already there
RegisterKeepsFirst(name, impl) ==
    /\ mysqlFlavors' = IF name \in Registered
                       THEN mysqlFlavors
                       ELSE [n \in Registered \cup {name} |->
                                IF n = name THEN impl ELSE mysqlFlavors[n]]
    /\ Registration(name, impl)

\* Register(name, impl): mysqlFlavors[name] = impl, inserting or overwriting
Register(name, impl) ==
    /\ mysqlFlavors' = [n \in Registered \cup {name} |->
                           IF n = name THEN impl ELSE mysqlFlavors[n]]
    /\ Registration(name, impl)

\* A registration that is not ordered before or after a map read in progress
\* is a data race on mysqlFlavors.  The read may see the map as it was or as
\* it becomes (the interleavings of Register with L63..L75), or the runtime
\* may abort the process, which is this action.
InCall(p) == pc[p] \in {"L63", "L64", "L69", "L75"}

RegisterRace ==
    /\ fatal = "none"
    /\ mutations < MaxMutations
    /\ \E p \in Callers : InCall(p)
    /\ fatal' = "crash"
    /\ UNCHANGED <<mysqlFlavors, env, pc, f, ret, calls, mutations, hist>>

Setenv(v) ==
    /\ fatal = "none"
    /\ v # env
    /\ mutations < MaxMutations
    /\ mutations' = mutations + 1
    /\ env' = v
    /\ UNCHANGED <<mysqlFlavors, pc, f, ret, fatal, calls, hist>>

\* --------------------------------------------------------- mysqlFlavor()

\* return v
Return(p, v) ==
    /\ pc' = [pc EXCEPT ![p] = "done"]
    /\ ret' = [ret EXCEPT ![p] = v]
    /\ IF firstRet = NoFlavor
       THEN /\ firstRet' = v
            /\ firstF' = f[p]
            /\ firstClean' = regClean[p]
       ELSE UNCHANGED <<firstRet, firstF, firstClean>>
    /\ UNCHANGED <<mysqlFlavors, env, f, fatal, calls, mutations, regClean, early,
                   prevRet, prevSame, lastReg>>

\* log.Fatal / log.Fatalf: the process exits
Fatal(p, which) ==
    /\ pc' = [pc EXCEPT ![p] = "fatal"]
    /\ fatal' = which
    /\ UNCHANGED <<mysqlFlavors, env, f, ret, calls, mutations, hist>>

\* lines 61-62: f := os.Getenv("MYSQL_FLAVOR"); if f == ""
Call(p) ==
    /\ fatal = "none"
    /\ pc[p] \in {"idle", "done"}
    /\ calls < MaxCalls
    /\ calls' = calls + 1
    /\ f' = [f EXCEPT ![p] = env]
    /\ pc' = [pc EXCEPT ![p] = IF env = Unset THEN "L63" ELSE "L75"]
    /\ ret' = [ret EXCEPT ![p] = NoFlavor]
    /\ regClean' = [regClean EXCEPT ![p] = TRUE]
    /\ early' = [early EXCEPT ![p] = (firstRet = NoFlavor)]
    /\ prevRet' = [prevRet EXCEPT ![p] = ret[p]]
    /\ prevSame' = [prevSame EXCEPT ![p] = pc[p] = "done" /\ regClean[p] /\ f[p] = env]
    /\ UNCHANGED <<mysqlFlavors, env, fatal, mutations, firstRet, firstF, firstClean, lastReg>>

\* faulty variant: the only-one test lets any non-empty registry through
L63AnyRegistered(p) ==
    /\ fatal = "none"
    /\ pc[p] = "L63"
    /\ pc' = [pc EXCEPT ![p] = IF Len >= 1 THEN "L64" ELSE "L69"]
    /\ UNCHANGED <<mysqlFlavors, env, f, ret, fatal, calls, mutations, hist>>

\* faulty variant: the only-one test is off by one (len > 1)
L63MoreThanOne(p) ==
    /\ fatal = "none"
    /\ pc[p] = "L63"
    /\ pc' = [pc EXCEPT ![p] = IF Len > 1 THEN "L64" ELSE "L69"]
    /\ UNCHANGED <<mysqlFlavors, env, f, ret, fatal, calls, mutations, hist>>

\* faulty variant: the only flavor is used only when it is the default one
L63OnlyDefault(p) ==
    /\ fatal = "none"
    /\ pc[p] = "L63"
    /\ pc' = [pc EXCEPT ![p] = IF Len = 1 /\ DefaultName \in Registered
                                THEN "L64" ELSE "L69"]
    /\ UNCHANGED <<mysqlFlavors, env, f, ret, fatal, calls, mutations, hist>>

\* line 63: if len(mysqlFlavors) == 1
L63(p) ==
    /\ fatal = "none"
    /\ pc[p] = "L63"
    /\ pc' = [pc EXCEPT ![p] = IF Len = 1 THEN "L64" ELSE "L69"]
    /\ UNCHANGED <<mysqlFlavors, env, f, ret, fatal, calls, mutations, hist>>

\* lines 64-67: for k, v := range mysqlFlavors { return v }
\* The loop returns the first pair the iteration yields, an unspecified one
\* of those present; over an empty map the body never runs and control
\* reaches line 69.
L64(p) ==
    /\ fatal = "none"
    /\ pc[p] = "L64"
    /\ IF Registered = {}
       THEN /\ pc' = [pc EXCEPT ![p] = "L69"]
            /\ UNCHANGED <<mysqlFlavors, env, f, ret, fatal, calls, mutations, hist>>
       ELSE \E k \in Registered : Return(p, mysqlFlavors[k])

\* faulty variant: without the default flavor, any registered flavor is returned
L69AnyFallback(p) ==
    /\ fatal = "none"
    /\ pc[p] = "L69"
    /\ IF DefaultName \in Registered
       THEN Return(p, mysqlFlavors[DefaultName])
       ELSE IF Registered # {}
            THEN \E k \in Registered : Return(p, mysqlFlavors[k])
            ELSE Fatal(p, "unset")

\* lines 69-73: if v, ok := mysqlFlavors["GoogleMysql"]; ok { return v }; log.Fatal
L69(p) ==
    /\ fatal = "none"
    /\ pc[p] = "L69"
    /\ IF DefaultName \in Registered
       THEN Return(p, mysqlFlavors[DefaultName])
       ELSE Fatal(p, "unset")

\* faulty variant: the default flavor wins over the one MYSQL_FLAVOR names
L75PrefersDefault(p) ==
    /\ fatal = "none"
    /\ pc[p] = "L75"
    /\ IF DefaultName \in Registered
       THEN Return(p, mysqlFlavors[DefaultName])
       ELSE IF f[p] \in Registered
            THEN Return(p, mysqlFlavors[f[p]])
            ELSE Fatal(p, "unknown")

\* faulty variant: an unknown MYSQL_FLAVOR falls back to the implicit rules
L75FallsBack(p) ==
    /\ fatal = "none"
    /\ pc[p] = "L75"
    /\ IF f[p] \in Registered
       THEN Return(p, mysqlFlavors[f[p]])
       ELSE IF Len = 1
            THEN \E k \in Registered : Return(p, mysqlFlavors[k])
            ELSE IF DefaultName \in Registered
                 THEN Return(p, mysqlFlavors[DefaultName])
                 ELSE Fatal(p, "unknown")

\* lines 75-79: if v, ok := mysqlFlavors[f]; ok { return v }; log.Fatalf
L75(p) ==
    /\ fatal = "none"
    /\ pc[p] = "L75"
    /\ IF f[p] \in Registered
       THEN Return(p, mysqlFlavors[f[p]])
       ELSE Fatal(p, "unknown")

Next ==
    \/ \E name \in Names, impl \in Impls : Register(name, impl)
    \/ RegisterRace
    \/ \E v \in EnvValues : Setenv(v)
    \/ \E p \in Callers : Call(p)
    \/ \E p \in Callers : L63(p)
    \/ \E p \in Callers : L64(p)
    \/ \E p \in Callers : L69(p)
    \/ \E p \in Callers : L75(p)

Spec == Init /\ [][Next]_vars

\* ================================================================ claims

Finished(p) == pc[p] \in {"done", "fatal"}
Succeeded(p) == pc[p] = "done"
Failed(p, which) == pc[p] = "fatal" /\ fatal = which /\ ret[p] = NoFlavor

\* The call of p read an empty/absent MYSQL_FLAVOR (Implicit) or a name
\* (Explicit), and the registry is as it was when the call began.
Implicit(p) == Finished(p) /\ regClean[p] /\ f[p] = Unset
Explicit(p) == Finished(p) /\ regClean[p] /\ f[p] # Unset

\* C1: a call that read a non-empty MYSQL_FLAVOR naming a registered flavor
\* returns the implementation registered under that name, whatever else is
\* registered.
C1_ExplicitRegistered ==
    \A p \in Callers :
        (Explicit(p) /\ f[p] \in Registered)
            => (Succeeded(p) /\ ret[p] = mysqlFlavors[f[p]])

C1_Witness ==
    \E p \in Callers :
        /\ Explicit(p) /\ Succeeded(p)
        /\ f[p] \in Registered /\ f[p] # DefaultName
        /\ DefaultName \in Registered
        /\ mysqlFlavors[f[p]] # mysqlFlavors[DefaultName]

\* C2: a call that read a non-empty MYSQL_FLAVOR naming no registered flavor
\* ends in the "unknown value" fatal error and returns nothing, also when
\* one flavor or the default flavor is registered.
C2_ExplicitUnknown ==
    \A p \in Callers :
        (Explicit(p) /\ f[p] \notin Registered) => Failed(p, "unknown")

C2_Witness ==
    \E p \in Callers :
        /\ Explicit(p) /\ f[p] \notin Registered
        /\ Registered = {DefaultName}
        /\ Failed(p, "unknown")

\* C3: with MYSQL_FLAVOR empty and exactly one flavor registered, under any
\* name, the call returns that flavor.
C3_OnlyOne ==
    \A p \in Callers :
        (Implicit(p) /\ Len = 1)
            => (Succeeded(p) /\ \A k \in Registered : ret[p] = mysqlFlavors[k])

C3_Witness ==
    \E p \in Callers :
        Implicit(p) /\ Succeeded(p) /\ Registered = {"Percona"}

\* C4: with MYSQL_FLAVOR empty, more than one flavor registered and
\* "GoogleMysql" among them, the call returns the "GoogleMysql" flavor.
C4_DefaultAmongSeveral ==
    \A p \in Callers :
        (Implicit(p) /\ Len > 1 /\ DefaultName \in Registered)
            => (Succeeded(p) /\ ret[p] = mysqlFlavors[DefaultName])

C4_Witness ==
    \E p \in Callers :
        /\ Implicit(p) /\ Succeeded(p)
        /\ Len > 1 /\ DefaultName \in Registered
        /\ \E k \in Registered : mysqlFlavors[k] # mysqlFlavors[DefaultName]

\* C5: with MYSQL_FLAVOR empty and either no flavor registered, or two or
\* more but not "GoogleMysql", the call ends in the "not set" fatal error and
\* returns nothing.
C5_NoUsableDefault ==
    \A p \in Callers :
        (Implicit(p) /\ (Len = 0 \/ (Len >= 2 /\ DefaultName \notin Registered)))
            => Failed(p, "unset")

C5_Witness ==
    \E p \in Callers :
        /\ Implicit(p) /\ Failed(p, "unset")
        /\ Len >= 2 /\ DefaultName \notin Registered

EarlyCallers == {p \in Callers : early[p]}

C8_Idempotent ==
    \A p \in Callers :
        (Succeeded(p) /\ prevSame[p] /\ prevRet[p] # NoFlavor)
            => ret[p] = prevRet[p]

C8_Witness ==
    \E p \in Callers :
        Succeeded(p) /\ prevSame[p] /\ prevRet[p] # NoFlavor

\* C9 as stated: with only "MariaDB" registered and MYSQL_FLAVOR empty, the
\* call ends in the fatal error.
MariaOnly == [n \in {"MariaDB"} |-> "implB"]

C9_MariaOnlyFails ==
    \A p \in Callers :
        (Implicit(p) /\ mysqlFlavors = MariaOnly) => pc[p] = "fatal"

\* C9 amended: with only "MariaDB" registered and MYSQL_FLAVOR empty, the
\* call returns the "MariaDB" implementation and no fatal error occurs.
C9_MariaOnlySucceeds ==
    \A p \in Callers :
        (Implicit(p) /\ mysqlFlavors = MariaOnly)
            => (Succeeded(p) /\ ret[p] = "implB")

C9_Witness ==
    \E p \in Callers :
        Implicit(p) /\ mysqlFlavors = MariaOnly /\ Succeeded(p) /\ fatal = "none"

\* C10: registering under a name already present overwrites: the set of
\* names is the same, the name maps to the new implementation, the other
\* entries are as before, and a later call that selects the name returns
\* the new implementation.
Selects(p, n) ==
    \/ f[p] = n
    \/ f[p] = Unset /\ (Registered = {n} \/ (Len > 1 /\ n = DefaultName))

RegisterStep == mutations' # mutations /\ env' = env

OverwriteStep ==
    (RegisterStep /\ lastReg' # NoReg) =>
        /\ lastReg'.name \in Registered
        /\ lastReg'.old = mysqlFlavors[lastReg'.name]
        /\ DOMAIN mysqlFlavors' = Registered
        /\ mysqlFlavors'[lastReg'.name] = lastReg'.impl
        /\ \A k \in Registered \ {lastReg'.name} : mysqlFlavors'[k] = mysqlFlavors[k]

OverwriteSeen ==
    lastReg # NoReg =>
        /\ lastReg.name \in Registered
        /\ mysqlFlavors[lastReg.name] = lastReg.impl
        /\ \A p \in Callers :
               (Succeeded(p) /\ regClean[p] /\ Selects(p, lastReg.name))
                   => ret[p] = lastReg.impl

====
